---- MODULE Spec2Model ----
(***************************************************************************)
(* Model of src/main.rs: a shared RGB canvas behind an RwLock, an mpsc     *)
(* queue drained by one applier thread, a time-windowed cache of the PNG   *)
(* encoding behind a Mutex, the two HTTP handlers get_image and set_pixel, *)
(* and main's graceful shutdown followed by the save of the canvas.        *)
(***************************************************************************)
EXTENDS Integers, Sequences, FiniteSets, TLC

VARIABLES
    canvas,        \* the RgbImage inside Arc<RwLock<..>>: [Coords -> colour]
    writer,        \* TRUE while the applier holds the RwLock write guard
    readers,       \* threads holding an RwLock read guard
    poisoned,      \* the locks a panicking guard holder has poisoned
    canvas_cache,  \* the Option<CanvasCache<Vec<u8>>> inside the Mutex
    queue,         \* entries sent on the mpsc channel and not yet received
    tx_alive,      \* TRUE until the last Sender (ServerState.queue) is dropped
    applier_pc,    \* position of the applier thread
    pixel,         \* the applier's local `pixel`
    pc,            \* position of every thread that encodes (handlers, main)
    buffer,        \* every encoding thread's local `buffer`
    saved,         \* the contents of data/image.png written at shutdown
    now,           \* the monotonic clock (Instant), in milliseconds
    response,      \* the response the last step returned to a client, if any
    accepted,      \* history: the writes set_pixel answered with 204, in send order
    applied,       \* history: the writes put on the canvas, in order
    batch_start,   \* history: Len(accepted) when the held write guard was taken
    snap_at        \* history: the clock when each recorded handler took its read guard

vars == <<canvas, writer, readers, poisoned, canvas_cache, queue, tx_alive,
          applier_pc, pixel, pc, buffer, saved, now, response,
          accepted, applied, batch_start, snap_at>>

(***************************************************************************)
(* Bounds of the model                                                     *)
(***************************************************************************)
MaxWrites == 2      \* at most this many requests are accepted by set_pixel
TickMs == 50        \* the clock advances in steps of this many milliseconds
MaxTime == 150      \* the clock stops advancing here

(***************************************************************************)
(* Data                                                                    *)
(***************************************************************************)
Black == <<0, 0, 0>>
Red == <<255, 0, 0>>
Green == <<0, 255, 0>>

\* the colours a request may carry: Rgb([r, g, b])
Colours == {Red, Green}

\* data/image.png as decoded at startup, row by row
SeedRows == << <<Black, Black>> >>

\* canvas_size: (canvas.width(), canvas.height())
canvas_size == <<Len(SeedRows[1]), Len(SeedRows)>>

W == canvas_size[1]
H == canvas_size[2]

Coords == (0 .. W - 1) \X (0 .. H - 1)

Seed == [c \in Coords |-> SeedRows[c[2] + 1][c[1] + 1]]

\* struct Pixel, as deserialized from a request: every coordinate inside of
\* the drawing area with every colour, and the coordinates just outside of it
\* (x = W, y = H or both) with one colour
Pixel ==
    {p \in [x : 0 .. W, y : 0 .. H, rgb : Colours] :
        (p.x = W \/ p.y = H) => p.rgb = Red}

\* Option: None, or Some(v)
None == [none |-> TRUE]
Some(v) == [some |-> v]

Handlers == {"h1", "h2"}
Main == "main"
Threads == Handlers \cup {Main}

\* Duration::from_millis(100)
TTL == 100

(***************************************************************************)
(* The PNG encoding, as the bytes of the image: its dimensions, then its   *)
(* pixels row by row, three bytes each.                                    *)
(***************************************************************************)
EncodeHeader == <<W, H>>

\* the coordinate of the k-th pixel (from 0) in row-major order
NthCoord(k) == <<k % W, k \div W>>

\* the number of pixels already in a partial encoding
PixelsIn(buf) == (Len(buf) - Len(EncodeHeader)) \div 3

EncodeComplete(buf) == Len(buf) = Len(EncodeHeader) + 3 * W * H

RECURSIVE EncodePixels(_, _)
EncodePixels(img, k) ==
    IF k = 0 THEN <<>>
    ELSE EncodePixels(img, k - 1) \o img[NthCoord(k - 1)]

\* image.write_to(&mut buffer, ImageFormat::Png)
Encode(img) == EncodeHeader \o EncodePixels(img, W * H)

(***************************************************************************)
(* CanvasCache                                                             *)
(***************************************************************************)
\* mutant: the entry is not stamped with the time of its creation
CanvasCacheNew_Unstamped(data, clock) == [data |-> data, updated_at |-> 0]

\* CanvasCache::new
CanvasCacheNew(data, clock) == [data |-> data, updated_at |-> clock]

\* mutant: an entry of age exactly TTL still counts as fresh
CanvasCacheGet_Late(cache, clock) ==
    IF clock - cache.updated_at > TTL THEN None ELSE Some(cache.data)

\* CanvasCache::get, None when the entry has expired
CanvasCacheGet(cache, clock) ==
    IF clock - cache.updated_at >= TTL THEN None ELSE Some(cache.data)

\* state.canvas_cache.lock().unwrap().as_ref().and_then(|cache| cache.get())
CacheLookup(slot, clock) ==
    IF slot = None THEN None ELSE CanvasCacheGet(slot, clock)

(***************************************************************************)
(* Responses                                                               *)
(***************************************************************************)
NoResponse ==
    [status |-> 0, text |-> "", data |-> <<>>, content_type |-> "", cache_control |-> ""]

\* Response::from(data): a body and no header
ResponseFromCache(data) ==
    [status |-> 200, text |-> "", data |-> data, content_type |-> "", cache_control |-> ""]

\* Response::from(data).set_content_type("image/png").with_header("Cache-Control", "no-store")
ResponseEncoded(data) ==
    [status |-> 200, text |-> "", data |-> data,
     content_type |-> "image/png", cache_control |-> "no-store"]

\* StatusCode::BAD_REQUEST.with_body("pixel outside of drawing area")
ResponseOutside ==
    [status |-> 400, text |-> "pixel outside of drawing area", data |-> <<>>,
     content_type |-> "", cache_control |-> ""]

\* StatusCode::NO_CONTENT.into()
ResponseNoContent ==
    [status |-> 204, text |-> "", data |-> <<>>, content_type |-> "", cache_control |-> ""]

\* an unwrap() panicked in the handler: the request ends without an answer
ResponsePanic ==
    [status |-> 500, text |-> "panic", data |-> <<>>, content_type |-> "", cache_control |-> ""]

(***************************************************************************)
(* The initial state: main has loaded the image, spawned the applier and   *)
(* the server is running.  `recorded` is the set of handlers whose         *)
(* snapshot times the history variable snap_at keeps.                      *)
(***************************************************************************)
Start(recorded) ==
    /\ canvas = Seed
    /\ writer = FALSE
    /\ readers = {}
    /\ poisoned = {}
    /\ canvas_cache = None
    /\ queue = <<>>
    /\ tx_alive = TRUE
    /\ applier_pc = "recv"
    /\ pixel = None
    /\ pc = [t \in Threads |-> IF t = Main THEN "serving" ELSE "idle"]
    /\ buffer = [t \in Threads |-> <<>>]
    /\ saved = None
    /\ now = 0
    /\ response = NoResponse
    /\ accepted = <<>>
    /\ applied = <<>>
    /\ batch_start = 0
    /\ snap_at = [h \in recorded |-> 0]

Init == Start({})

\* the process runs until main returns (or panics)
Running == pc[Main] \notin {"exited", "panicked"}

\* the server hands new requests to the handlers until the signal arrives
Accepting == pc[Main] = "serving"

(***************************************************************************)
(* Panics: an unwrap() that fails unwinds the thread and drops the guards  *)
(* it holds. Dropping a write guard or a mutex guard while panicking       *)
(* poisons its lock; dropping a read guard does not.                       *)
(***************************************************************************)
\* mutant: the cache's MutexGuard is still alive while the canvas is encoded
GuardsWhileEncoding_WithCache == {"canvas_read", "cache_mutex"}

\* the guards alive in get_image (and in main's save) while the canvas is
\* encoded: the read guard only, since the cache's MutexGuard is a temporary
\* of the `if let` that ended before
GuardsWhileEncoding == {"canvas_read"}

\* the guard alive in the applier while it puts pixels
GuardsWhilePutting == {"canvas_write"}

Poisons(guards) ==
    (IF "canvas_write" \in guards THEN {"canvas"} ELSE {})
        \cup (IF "cache_mutex" \in guards THEN {"cache"} ELSE {})

\* thread t panics holding `guards`: a handler's request ends without an
\* answer and its worker lives on; main's panic ends the process
Panic(t, guards) ==
    /\ pc' = [pc EXCEPT ![t] = IF t = Main THEN "panicked" ELSE "idle"]
    /\ buffer' = [buffer EXCEPT ![t] = <<>>]
    /\ readers' = readers \ {t}
    /\ poisoned' = poisoned \cup Poisons(guards)
    /\ response' = IF t = Main THEN NoResponse ELSE ResponsePanic
    /\ snap_at' = [h \in DOMAIN snap_at |-> IF h = t THEN 0 ELSE snap_at[h]]

(***************************************************************************)
(* set_pixel                                                               *)
(***************************************************************************)
\* mutant: the y coordinate is not checked
OutsideDrawingArea_XOnly(json) == json.x >= canvas_size[1]

\* mutant: the bounds are compared with > instead of >=
OutsideDrawingArea_OffByOne(json) == json.x > canvas_size[1] \/ json.y > canvas_size[2]

\* json.x >= state.canvas_size.0 || json.y >= state.canvas_size.1
OutsideDrawingArea(json) == json.x >= canvas_size[1] \/ json.y >= canvas_size[2]

\* the Receiver lives in the applier thread's closure
rx_alive == applier_pc \notin {"done", "dead"}

\* mutant: the handler takes shared access to the canvas to read its
\* dimensions, and waits while the applier holds the write lock
set_pixel_Locking(json) ==
    /\ Accepting
    /\ ~writer
    /\ IF OutsideDrawingArea(json)
       THEN /\ response' = ResponseOutside
            /\ UNCHANGED <<queue, accepted>>
       ELSE /\ Len(accepted) < MaxWrites
            /\ queue' = Append(queue, json)
            /\ accepted' = Append(accepted, json)
            /\ response' = ResponseNoContent
    /\ UNCHANGED <<canvas, writer, readers, poisoned, canvas_cache, tx_alive,
                   applier_pc, pixel, pc, buffer, saved, now, applied>>
    /\ UNCHANGED <<batch_start, snap_at>>

\* set_pixel: the bounds check, then state.queue.send(json).unwrap()
set_pixel(json) ==
    /\ Accepting
    /\ IF OutsideDrawingArea(json)
       THEN /\ response' = ResponseOutside
            /\ UNCHANGED <<queue, accepted>>
       ELSE /\ Len(accepted) < MaxWrites
            /\ IF rx_alive
               THEN /\ queue' = Append(queue, json)
                    /\ accepted' = Append(accepted, json)
                    /\ response' = ResponseNoContent
               ELSE /\ response' = ResponsePanic
                    /\ UNCHANGED <<queue, accepted>>
    /\ UNCHANGED <<canvas, writer, readers, poisoned, canvas_cache, tx_alive,
                   applier_pc, pixel, pc, buffer, saved, now,
                   applied>>
    /\ UNCHANGED <<batch_start, snap_at>>

(***************************************************************************)
(* get_image                                                               *)
(***************************************************************************)
\* the cache holds a fresh entry: its bytes are cloned and returned
get_image_hit(h) ==
    /\ Accepting
    /\ pc[h] = "idle"
    /\ "cache" \notin poisoned
    /\ CacheLookup(canvas_cache, now) /= None
    /\ response' = ResponseFromCache(CacheLookup(canvas_cache, now).some)
    /\ UNCHANGED <<canvas, writer, readers, poisoned, canvas_cache, queue,
                   tx_alive, applier_pc, pixel, pc, buffer, saved,
                   now, accepted, applied>>
    /\ UNCHANGED <<batch_start, snap_at>>

\* no entry, or an expired one: the handler goes on to encode
get_image_miss(h) ==
    /\ Accepting
    /\ pc[h] = "idle"
    /\ IF "cache" \in poisoned
       THEN Panic(h, {})
       ELSE /\ CacheLookup(canvas_cache, now) = None
            /\ pc' = [pc EXCEPT ![h] = "miss"]
            /\ response' = NoResponse
            /\ UNCHANGED <<readers, poisoned, buffer, snap_at>>
    /\ UNCHANGED <<canvas, writer, canvas_cache, queue, tx_alive, applier_pc,
                   pixel, saved, now, accepted, applied>>
    /\ UNCHANGED batch_start

\* RwLock::read grants shared access when no writer holds the lock
CanRead == ~writer

\* canvas.read().unwrap(), by a handler that missed the cache or by main
\* before the save; the encoder starts with the image's header
canvas_read(t) ==
    /\ Running
    /\ pc[t] = (IF t = Main THEN "save" ELSE "miss")
    /\ IF "canvas" \in poisoned
       THEN Panic(t, {})
       ELSE /\ CanRead
            /\ readers' = readers \cup {t}
            /\ pc' = [pc EXCEPT ![t] = "encoding"]
            /\ buffer' = [buffer EXCEPT ![t] = EncodeHeader]
            /\ snap_at' = [h \in DOMAIN snap_at |-> IF h = t THEN now ELSE snap_at[h]]
            /\ response' = NoResponse
            /\ UNCHANGED poisoned
    /\ UNCHANGED <<canvas, writer, canvas_cache, queue, tx_alive, applier_pc,
                   pixel, saved, now, accepted, applied>>
    /\ UNCHANGED batch_start

\* the encoder reads the next pixel of the canvas into the buffer
encode_step(t) ==
    /\ Running
    /\ pc[t] = "encoding"
    /\ ~EncodeComplete(buffer[t])
    /\ buffer' = [buffer EXCEPT ![t] = @ \o canvas[NthCoord(PixelsIn(@))]]
    /\ response' = NoResponse
    /\ UNCHANGED <<canvas, writer, readers, poisoned, canvas_cache, queue,
                   tx_alive, applier_pc, pixel, pc, saved, now,
                   accepted, applied>>
    /\ UNCHANGED <<batch_start, snap_at>>

\* write_to returned Ok: the read guard is dropped at the end of the statement
encode_ok(h) ==
    /\ Running
    /\ pc[h] = "encoding"
    /\ EncodeComplete(buffer[h])
    /\ readers' = readers \ {h}
    /\ pc' = [pc EXCEPT ![h] = "encoded"]
    /\ response' = NoResponse
    /\ UNCHANGED <<canvas, writer, poisoned, canvas_cache, queue, tx_alive,
                   applier_pc, pixel, buffer, saved, now, accepted, applied>>
    /\ UNCHANGED <<batch_start, snap_at>>

\* write_to returned Err in get_image: unwrap() panics
encode_fail(h) ==
    /\ Running
    /\ pc[h] = "encoding"
    /\ Panic(h, GuardsWhileEncoding)
    /\ UNCHANGED <<canvas, writer, canvas_cache, queue, tx_alive, applier_pc,
                   pixel, saved, now, accepted, applied>>
    /\ UNCHANGED batch_start

\* *state.canvas_cache.lock().unwrap() = Some(CanvasCache::new(data.clone()))
\* and the response built from data
cache_store(h) ==
    /\ Running
    /\ pc[h] = "encoded"
    /\ IF "cache" \in poisoned
       THEN Panic(h, {}) /\ UNCHANGED canvas_cache
       ELSE /\ canvas_cache' = CanvasCacheNew(buffer[h], now)
            /\ response' = ResponseEncoded(buffer[h])
            /\ pc' = [pc EXCEPT ![h] = "idle"]
            /\ buffer' = [buffer EXCEPT ![h] = <<>>]
            /\ snap_at' = [g \in DOMAIN snap_at |-> IF g = h THEN 0 ELSE snap_at[g]]
            /\ UNCHANGED <<readers, poisoned>>
    /\ UNCHANGED <<canvas, writer, queue, tx_alive, applier_pc, pixel, saved,
                   now, accepted, applied>>
    /\ UNCHANGED batch_start

(***************************************************************************)
(* The applier thread                                                      *)
(***************************************************************************)
\* rx.recv() returns Ok(pixel)
applier_recv ==
    /\ Running
    /\ applier_pc = "recv"
    /\ queue /= <<>>
    /\ pixel' = Head(queue)
    /\ queue' = Tail(queue)
    /\ applier_pc' = "lock"
    /\ response' = NoResponse
    /\ UNCHANGED <<canvas, writer, readers, poisoned, canvas_cache, tx_alive,
                   pc, buffer, saved, now, accepted, applied>>
    /\ UNCHANGED <<batch_start, snap_at>>

\* rx.recv() returns Err: every Sender is dropped and the channel is empty
applier_recv_closed ==
    /\ Running
    /\ applier_pc = "recv"
    /\ queue = <<>>
    /\ ~tx_alive
    /\ applier_pc' = "done"
    /\ response' = NoResponse
    /\ UNCHANGED <<canvas, writer, readers, poisoned, canvas_cache, queue,
                   tx_alive, pixel, pc, buffer, saved, now,
                   accepted, applied>>
    /\ UNCHANGED <<batch_start, snap_at>>

\* mutant: the write lock is granted while readers hold shared access
CanWrite_IgnoreReaders == ~writer

\* RwLock::write grants exclusive access when nobody holds the lock
CanWrite == ~writer /\ readers = {}

\* canvas_clone.write().unwrap()
canvas_write ==
    /\ Running
    /\ applier_pc = "lock"
    /\ IF "canvas" \in poisoned
       THEN applier_pc' = "dead" /\ pixel' = None /\ UNCHANGED writer
       ELSE CanWrite /\ writer' = TRUE /\ applier_pc' = "put" /\ UNCHANGED pixel
    /\ response' = NoResponse
    /\ UNCHANGED <<canvas, readers, poisoned, canvas_cache, queue, tx_alive,
                   pc, buffer, saved, now, accepted, applied>>
    /\ batch_start' = (IF "canvas" \in poisoned THEN 0 ELSE Len(accepted))
    /\ UNCHANGED snap_at

\* RgbImage::put_pixel panics outside of the image's own dimensions
PutInBounds(img, p) == <<p.x, p.y>> \in DOMAIN img

\* mutant: the channels are stored in the order b, g, r
PutPixel_Bgr(img, p) == [img EXCEPT ![<<p.x, p.y>>] = <<p.rgb[3], p.rgb[2], p.rgb[1]>>]

\* the image after put_pixel(p.x, p.y, Rgb([p.r, p.g, p.b]))
PutPixel(img, p) == [img EXCEPT ![<<p.x, p.y>>] = p.rgb]

\* mutant: the applier drops the cached encoding when it changes the canvas
put_pixel_Invalidating ==
    /\ Running
    /\ applier_pc = "put"
    /\ PutInBounds(canvas, pixel)
    /\ canvas' = PutPixel(canvas, pixel)
    /\ canvas_cache' = None
    /\ applied' = Append(applied, pixel)
    /\ applier_pc' = "try"
    /\ response' = NoResponse
    /\ UNCHANGED <<writer, poisoned, pixel, readers, queue, tx_alive, pc,
                   buffer, saved, now, accepted>>
    /\ UNCHANGED <<batch_start, snap_at>>

\* canvas.put_pixel(pixel.x, pixel.y, Rgb([pixel.r, pixel.g, pixel.b])) in the
\* applier's loop
put_pixel ==
    /\ Running
    /\ applier_pc = "put"
    /\ IF PutInBounds(canvas, pixel)
       THEN /\ canvas' = PutPixel(canvas, pixel)
            /\ applied' = Append(applied, pixel)
            /\ applier_pc' = "try"
            /\ UNCHANGED <<writer, poisoned, pixel>>
       ELSE /\ applier_pc' = "dead"
            /\ writer' = FALSE
            /\ poisoned' = poisoned \cup Poisons(GuardsWhilePutting)
            /\ pixel' = None
            /\ UNCHANGED <<canvas, applied>>
    /\ response' = NoResponse
    /\ UNCHANGED <<readers, canvas_cache, queue, tx_alive, pc, buffer,
                   saved, now, accepted>>
    /\ batch_start' = (IF PutInBounds(canvas, pixel) THEN batch_start ELSE 0)
    /\ UNCHANGED snap_at

\* mutant: the write guard outlives the batch, so the applier goes back to
\* rx.recv() with the lock held
applier_try_recv_KeepLock ==
    /\ Running
    /\ applier_pc = "try"
    /\ IF queue /= <<>>
       THEN /\ pixel' = Head(queue)
            /\ queue' = Tail(queue)
            /\ applier_pc' = "put"
       ELSE /\ pixel' = None
            /\ applier_pc' = "recv"
            /\ UNCHANGED queue
    /\ response' = NoResponse
    /\ UNCHANGED <<canvas, writer, readers, poisoned, canvas_cache, tx_alive,
                   pc, buffer, saved, now, accepted, applied>>
    /\ batch_start' = (IF queue /= <<>> THEN batch_start ELSE 0)
    /\ UNCHANGED snap_at

\* mutant: the entry try_recv returns is not assigned to `pixel`, so the
\* previous one is put again
applier_try_recv_Stale ==
    /\ Running
    /\ applier_pc = "try"
    /\ IF queue /= <<>>
       THEN /\ queue' = Tail(queue)
            /\ applier_pc' = "put"
            /\ UNCHANGED <<writer, pixel>>
       ELSE /\ pixel' = None
            /\ writer' = FALSE
            /\ applier_pc' = "recv"
            /\ UNCHANGED queue
    /\ response' = NoResponse
    /\ UNCHANGED <<canvas, readers, poisoned, canvas_cache, tx_alive, pc,
                   buffer, saved, now, accepted, applied>>
    /\ batch_start' = (IF queue /= <<>> THEN batch_start ELSE 0)
    /\ UNCHANGED snap_at

\* mutant: the batch is cut at the entries sent before the write guard was
\* taken, and the guard is dropped with later arrivals left in the channel
applier_try_recv_Deferring ==
    /\ Running
    /\ applier_pc = "try"
    /\ IF queue /= <<>> /\ Len(applied) < batch_start
       THEN /\ pixel' = Head(queue)
            /\ queue' = Tail(queue)
            /\ applier_pc' = "put"
            /\ batch_start' = batch_start
            /\ UNCHANGED writer
       ELSE /\ pixel' = None
            /\ writer' = FALSE
            /\ applier_pc' = "recv"
            /\ batch_start' = 0
            /\ UNCHANGED queue
    /\ response' = NoResponse
    /\ UNCHANGED <<canvas, readers, poisoned, canvas_cache, tx_alive, pc,
                   buffer, saved, now, accepted, applied>>
    /\ UNCHANGED snap_at

\* rx.try_recv(): Ok(new_pixel) continues the batch; Err (empty or
\* disconnected) breaks, and the write guard is dropped at the end of the
\* while body
applier_try_recv ==
    /\ Running
    /\ applier_pc = "try"
    /\ IF queue /= <<>>
       THEN /\ pixel' = Head(queue)
            /\ queue' = Tail(queue)
            /\ applier_pc' = "put"
            /\ UNCHANGED writer
       ELSE /\ pixel' = None
            /\ writer' = FALSE
            /\ applier_pc' = "recv"
            /\ UNCHANGED queue
    /\ response' = NoResponse
    /\ UNCHANGED <<canvas, readers, poisoned, canvas_cache, tx_alive, pc,
                   buffer, saved, now, accepted, applied>>
    /\ batch_start' = (IF queue /= <<>> THEN batch_start ELSE 0)
    /\ UNCHANGED snap_at

(***************************************************************************)
(* main: graceful shutdown, then the save                                  *)
(***************************************************************************)
\* SIGTERM or SIGINT arrives: the server stops accepting requests
signal ==
    /\ pc[Main] = "serving"
    /\ pc' = [pc EXCEPT ![Main] = "draining"]
    /\ response' = NoResponse
    /\ UNCHANGED <<canvas, writer, readers, poisoned, canvas_cache, queue,
                   tx_alive, applier_pc, pixel, buffer, saved, now,
                   accepted, applied>>
    /\ UNCHANGED <<batch_start, snap_at>>

\* run_with_graceful_shutdown returns once the requests in flight have
\* finished; the app, and with it the last Sender, is dropped
server_return ==
    /\ pc[Main] = "draining"
    /\ \A h \in Handlers : pc[h] = "idle"
    /\ tx_alive' = FALSE
    /\ pc' = [pc EXCEPT ![Main] = "save"]
    /\ response' = NoResponse
    /\ UNCHANGED <<canvas, writer, readers, poisoned, canvas_cache, queue,
                   applier_pc, pixel, buffer, saved, now, accepted, applied>>
    /\ UNCHANGED <<batch_start, snap_at>>

\* save_with_format wrote data/image.png; main returns and the process,
\* with the applier thread in it, ends
save_finish ==
    /\ pc[Main] = "encoding"
    /\ EncodeComplete(buffer[Main])
    /\ saved' = Some(buffer[Main])
    /\ readers' = readers \ {Main}
    /\ pc' = [pc EXCEPT ![Main] = "exited"]
    /\ buffer' = [buffer EXCEPT ![Main] = <<>>]
    /\ response' = NoResponse
    /\ UNCHANGED <<canvas, writer, poisoned, canvas_cache, queue, tx_alive,
                   applier_pc, pixel, now, accepted, applied>>
    /\ UNCHANGED <<batch_start, snap_at>>

(***************************************************************************)
(* Time                                                                    *)
(***************************************************************************)
Tick ==
    /\ Running
    /\ now + TickMs <= MaxTime
    /\ now' = now + TickMs
    /\ response' = NoResponse
    /\ UNCHANGED <<canvas, writer, readers, poisoned, canvas_cache, queue,
                   tx_alive, applier_pc, pixel, pc, buffer, saved,
                   accepted, applied>>
    /\ UNCHANGED <<batch_start, snap_at>>

Next ==
    \/ \E json \in Pixel : set_pixel(json)
    \/ \E h \in Handlers : get_image_hit(h)
    \/ \E h \in Handlers : get_image_miss(h)
    \/ \E t \in Threads : canvas_read(t)
    \/ \E t \in Threads : encode_step(t)
    \/ \E h \in Handlers : encode_ok(h)
    \/ \E h \in Handlers : encode_fail(h)
    \/ \E h \in Handlers : cache_store(h)
    \/ applier_recv
    \/ applier_recv_closed
    \/ canvas_write
    \/ put_pixel
    \/ applier_try_recv
    \/ signal
    \/ server_return
    \/ save_finish
    \/ Tick

Spec == Init /\ [][Next]_vars

\* the same program, with the snapshot times of one handler recorded (the
\* handlers run the same code)
SnapInit == Start({"h1"})

SnapSpec == SnapInit /\ [][Next]_vars

(***************************************************************************)
(* Definitions the properties are stated with                              *)
(***************************************************************************)
\* the image after the writes ws are put on img, first to last
RECURSIVE ApplyAll(_, _)
ApplyAll(img, ws) ==
    IF ws = <<>> THEN img
    ELSE ApplyAll([img EXCEPT ![<<Head(ws).x, Head(ws).y>>] = Head(ws).rgb], Tail(ws))

\* the colour of the last write of ws to coordinate c, the seed's if none
LastWrite(ws, c) ==
    LET at == {i \in 1 .. Len(ws) : ws[i].x = c[1] /\ ws[i].y = c[2]}
    IN  IF at = {} THEN Seed[c]
        ELSE ws[CHOOSE i \in at : \A j \in at : j <= i].rgb

\* the entry the applier has received and not yet put on the canvas
InHand == IF applier_pc \in {"lock", "put"} THEN <<pixel>> ELSE <<>>

\* the applier waits in rx.recv() (or has returned) and holds nothing
ApplierIdle == applier_pc \in {"recv", "done"}

IsPrefix(a, b) == Len(a) <= Len(b) /\ a = SubSeq(b, 1, Len(a))

\* the encodings of the canvas after each prefix of the accepted writes
PrefixEncodings ==
    {Encode(ApplyAll(Seed, SubSeq(accepted, 1, k))) : k \in 0 .. Len(accepted)}

(***************************************************************************)
(* C1. Shutdown completeness: when main reads the canvas to persist it, no *)
(* accepted write is still in the queue or in the applier's hands, and the *)
(* persisted image is the seed with every accepted write applied.          *)
(* The code does not wait for the applier before it saves: TLC refutes it. *)
(***************************************************************************)
C1_ShutdownCompleteness ==
    /\ pc[Main] = "encoding" => queue = <<>> /\ ApplierIdle /\ applied = accepted
    /\ pc[Main] = "exited" => saved = Some(Encode(ApplyAll(Seed, accepted)))

(***************************************************************************)
(* C2. Boundary validation: set_pixel with x >= W or y >= H answers 400    *)
(* "pixel outside of drawing area" and leaves queue, canvas and cache      *)
(* unchanged; with x < W and y < H it answers 204 and enqueues the request.*)
(***************************************************************************)
C2_BoundaryValidation ==
    [][response' /= NoResponse =>
        \A json \in Pixel :
            set_pixel(json) =>
                IF json.x >= W \/ json.y >= H
                THEN /\ response'.status = 400
                     /\ response'.text = "pixel outside of drawing area"
                     /\ UNCHANGED <<queue, canvas, canvas_cache, accepted>>
                ELSE /\ response'.status = 204
                     /\ queue' = Append(queue, json)
                     /\ accepted' = Append(accepted, json)]_vars

\* a request outside of the drawing area was rejected while an accepted one
\* is queued
C2_Witness ==
    /\ response = ResponseOutside
    /\ Len(queue) = 1
    /\ accepted = queue

(***************************************************************************)
(* C3. FIFO exactly-once application: the writes applied to the canvas are *)
(* a prefix of the accepted writes, in the same order, and every accepted  *)
(* write is either applied, in the applier's hands or in the queue, once.  *)
(***************************************************************************)
C3_FifoExactlyOnce ==
    /\ IsPrefix(applied, accepted)
    /\ accepted = applied \o InHand \o queue

\* the applier is inside a batch: one write applied under the write lock,
\* the next one received by try_recv
C3_Witness ==
    /\ writer
    /\ applier_pc = "put"
    /\ Len(applied) = 1
    /\ Len(accepted) = 2

(***************************************************************************)
(* C4. Drained-state correctness: whenever the queue is empty and the      *)
(* applier is idle, every coordinate holds the colour of the last accepted *)
(* write to it, or its seed colour if there was none.                      *)
(***************************************************************************)
C4_DrainedState ==
    (queue = <<>> /\ ApplierIdle) =>
        \A c \in Coords : canvas[c] = LastWrite(accepted, c)

\* drained after two accepted writes of different colours to one coordinate
C4_Witness ==
    /\ queue = <<>>
    /\ ApplierIdle
    /\ Len(accepted) = 2
    /\ accepted[1].x = accepted[2].x
    /\ accepted[1].y = accepted[2].y
    /\ accepted[1].rgb /= accepted[2].rgb

C6_ImageHeaders ==
    response.status = 200 =>
        /\ response.content_type = "image/png"
        /\ response.cache_control = "no-store"

(***************************************************************************)
(* C7. Read/write isolation: the applier holds the write lock only while   *)
(* no reader holds shared access, the canvas changes only under the write  *)
(* lock and never while a reader holds shared access, so what an encoder   *)
(* (a get_image miss or the shutdown save) has read so far always agrees   *)
(* with the canvas; and the canvas, hence every finished encoding, is the  *)
(* seed with a prefix of the accepted writes applied.                      *)
(***************************************************************************)
C7_ReadWriteIsolation ==
    /\ [](/\ writer => readers = {}
          /\ \A t \in Threads :
                pc[t] = "encoding" =>
                    t \in readers /\ IsPrefix(buffer[t], Encode(canvas))
          /\ canvas = ApplyAll(Seed, applied)
          /\ Encode(canvas) \in PrefixEncodings
          /\ \A h \in Handlers : pc[h] = "encoded" => buffer[h] \in PrefixEncodings
          /\ canvas_cache /= None => canvas_cache.data \in PrefixEncodings
          /\ saved /= None => saved.some \in PrefixEncodings)
    /\ [][canvas' /= canvas => writer /\ writer' /\ readers = {} /\ readers' = {}]_vars

\* a handler is in the middle of an encode of a canvas that has been written
\* to, while the applier waits for the write lock with the next entry
C7_Witness ==
    /\ \E h \in Handlers :
        /\ pc[h] = "encoding"
        /\ PixelsIn(buffer[h]) = 1
    /\ applier_pc = "lock"
    /\ Len(applied) = 1
    /\ canvas /= Seed

(***************************************************************************)
(* C8. The cache is never invalidated by a write: set_pixel and every step *)
(* of the applier leave the cache slot unchanged, and a get_image read     *)
(* served from the cache returns exactly the cached bytes, takes no canvas *)
(* lock and leaves the cache unchanged, also when the canvas has changed   *)
(* since the entry was stored.                                             *)
(***************************************************************************)
C8_NoInvalidation ==
    [][/\ (applier_recv \/ applier_recv_closed \/ canvas_write \/ put_pixel
              \/ applier_try_recv) => UNCHANGED canvas_cache
       /\ response' /= NoResponse =>
            \A json \in Pixel : set_pixel(json) => UNCHANGED canvas_cache
       /\ \A h \in Handlers :
            get_image_hit(h) =>
                /\ response'.data = canvas_cache.data
                /\ UNCHANGED <<canvas_cache, readers, writer, canvas>>]_vars

\* a read has just been served from a fresh entry whose bytes are no longer
\* the encoding of the canvas
C8_Witness ==
    /\ canvas_cache /= None
    /\ response = ResponseFromCache(canvas_cache.data)
    /\ canvas_cache.data /= Encode(canvas)
    /\ applied /= <<>>

(***************************************************************************)
(* C9. Encode failure leaves the cache intact: when the encode of a        *)
(* get_image miss fails, the cache slot keeps its value, neither the cache *)
(* mutex nor the canvas lock is poisoned, the failing handler's shared     *)
(* access is released and the handler is free for the next request.        *)
(***************************************************************************)
C9_EncodeFailure ==
    /\ [](poisoned = {} /\ applier_pc /= "dead")
    /\ [][\A h \in Handlers :
            encode_fail(h) =>
                /\ UNCHANGED <<canvas_cache, canvas, queue, writer>>
                /\ poisoned' = {}
                /\ h \notin readers'
                /\ pc'[h] = "idle"]_vars

\* an encode has just failed while the cache holds an entry and the applier
\* waits for the write lock
C9_Witness ==
    /\ response = ResponsePanic
    /\ canvas_cache /= None
    /\ applier_pc = "lock"
    /\ readers = {}

(***************************************************************************)
(* The specification with the scheduling the threads get: the applier, the *)
(* handlers' steps and main's steps are taken if they stay enabled.        *)
(***************************************************************************)
ApplierNext ==
    applier_recv \/ applier_recv_closed \/ canvas_write \/ put_pixel \/ applier_try_recv

LiveSpec ==
    /\ Spec
    /\ WF_vars(ApplierNext)
    /\ \A t \in Threads : WF_vars(canvas_read(t)) /\ WF_vars(encode_step(t))
    /\ \A h \in Handlers : WF_vars(encode_ok(h)) /\ WF_vars(cache_store(h))
    /\ WF_vars(server_return)
    /\ WF_vars(save_finish)

(***************************************************************************)
(* C10. Every accepted write eventually becomes visible: under weak        *)
(* fairness of the applier and of the readers, the i-th write accepted by  *)
(* set_pixel is eventually applied to the canvas.                          *)
(* The process may end with accepted writes unapplied: TLC refutes it.     *)
(***************************************************************************)
C10_EventuallyVisible ==
    \A i \in 1 .. MaxWrites : (Len(accepted) >= i) ~> (Len(applied) >= i)

C12_BatchUnderOneLock ==
    /\ [](/\ writer <=> applier_pc \in {"put", "try"}
          /\ applier_pc = "recv" => ~writer /\ pixel = None)
    /\ [][/\ (~writer /\ writer') =>
                applier_pc = "lock" /\ pixel \in Pixel /\ pixel' = pixel
          /\ (applier_try_recv /\ queue /= <<>>) =>
                /\ writer /\ writer'
                /\ applier_pc' = "put"
                /\ pixel' = Head(queue)
                /\ queue' = Tail(queue)
          /\ applied' /= applied => writer /\ writer'
          /\ (writer /\ ~writer') =>
                applier_pc = "try" /\ queue = <<>> /\ applier_pc' = "recv"]_vars

\* two entries have been applied and the try_recv that will find the queue
\* empty and end the batch is next
C12_Witness ==
    /\ writer
    /\ applier_pc = "try"
    /\ Len(applied) = 2
    /\ queue = <<>>

(***************************************************************************)
(* C13. Applier termination: the applier loop ends only when every sender  *)
(* is dropped and the queue is empty, with every accepted entry applied;   *)
(* and the applier thread never comes to its end, also not with the        *)
(* process, while an accepted entry is still unapplied: once the queue is  *)
(* closed it applies the remaining entries first.                          *)
(* The process may end while the applier still has entries to apply: TLC   *)
(* refutes it.                                                             *)
(***************************************************************************)
C13_ApplierTermination ==
    /\ applier_pc = "done" => ~tx_alive /\ queue = <<>> /\ applied = accepted
    /\ ~Running => InHand \o queue = <<>>

(***************************************************************************)
(* C14. Accepted-without-confirmation enqueue: a valid set_pixel appends   *)
(* exactly one entry to the queue's tail and answers 204 without touching  *)
(* the canvas, its lock or the cache; it can complete whoever holds the    *)
(* canvas lock, and its send never fails, because the receiver is alive    *)
(* whenever a handler can run.                                             *)
(***************************************************************************)
C14_EnqueueNeverBlocks ==
    /\ [](Accepting => rx_alive)
    /\ []((Accepting /\ Len(accepted) < MaxWrites) =>
            \A json \in Pixel :
                (json.x < W /\ json.y < H) => ENABLED set_pixel(json))
    /\ [][response' /= NoResponse =>
            \A json \in Pixel :
                (json.x < W /\ json.y < H /\ set_pixel(json)) =>
                    /\ response' = ResponseNoContent
                    /\ queue' = Append(queue, json)
                    /\ UNCHANGED <<canvas, canvas_cache, writer, readers,
                                   poisoned, applier_pc, pixel, pc, buffer>>]_vars

\* a request has just been accepted while the applier holds the write lock
\* and a get_image miss waits for shared access
C14_Witness ==
    /\ response = ResponseNoContent
    /\ writer
    /\ \E h \in Handlers : pc[h] = "miss"

(***************************************************************************)
(* C17. In-bounds invariant: every entry in the queue or in the applier's  *)
(* hands lies inside the canvas, whose dimensions are those captured in    *)
(* canvas_size and never change; so put_pixel never panics, the applier    *)
(* never dies and the canvas lock is never poisoned.                       *)
(***************************************************************************)
C17_InBounds ==
    /\ DOMAIN canvas = (0 .. canvas_size[1] - 1) \X (0 .. canvas_size[2] - 1)
    /\ \A i \in 1 .. Len(queue) :
            queue[i].x < canvas_size[1] /\ queue[i].y < canvas_size[2]
    /\ pixel /= None => pixel.x < canvas_size[1] /\ pixel.y < canvas_size[2]
    /\ applier_pc /= "dead"
    /\ "canvas" \notin poisoned

\* a request outside of the drawing area has just been rejected while one
\* entry is queued and another is about to be put on the canvas
C17_Witness ==
    /\ response = ResponseOutside
    /\ Len(queue) = 1
    /\ applier_pc = "put"
    /\ writer

(***************************************************************************)
(* The specification of a server whose submitters never stop: the          *)
(* histories keep only the writes in flight, so that set_pixel can be      *)
(* accepted again once the applier has put an entry; at most MaxWrites     *)
(* entries are in the channel or in the applier's hand at a time.          *)
(***************************************************************************)
\* the requests of the stream: every coordinate, one colour
StreamPixel == {p \in Pixel : p.rgb = Red}

\* canvas.put_pixel(..) in the applier's loop, the put entry leaving the
\* window of writes in flight
put_pixel_forget ==
    /\ Running
    /\ applier_pc = "put"
    /\ IF PutInBounds(canvas, pixel)
       THEN /\ canvas' = PutPixel(canvas, pixel)
            /\ accepted' = Tail(accepted)
            /\ applier_pc' = "try"
            /\ UNCHANGED <<writer, poisoned, pixel, batch_start>>
       ELSE /\ applier_pc' = "dead"
            /\ writer' = FALSE
            /\ poisoned' = poisoned \cup Poisons(GuardsWhilePutting)
            /\ pixel' = None
            /\ batch_start' = 0
            /\ UNCHANGED <<canvas, accepted>>
    /\ response' = NoResponse
    /\ UNCHANGED <<readers, canvas_cache, queue, tx_alive, pc, buffer,
                   saved, now, applied>>
    /\ UNCHANGED snap_at

StreamApplierNext ==
    applier_recv \/ applier_recv_closed \/ canvas_write \/ put_pixel_forget
        \/ applier_try_recv

StreamNext ==
    \/ \E json \in StreamPixel : set_pixel(json)
    \/ \E h \in Handlers : get_image_hit(h)
    \/ \E h \in Handlers : get_image_miss(h)
    \/ \E t \in Threads : canvas_read(t)
    \/ \E t \in Threads : encode_step(t)
    \/ \E h \in Handlers : encode_ok(h)
    \/ \E h \in Handlers : encode_fail(h)
    \/ \E h \in Handlers : cache_store(h)
    \/ applier_recv
    \/ applier_recv_closed
    \/ canvas_write
    \/ put_pixel_forget
    \/ applier_try_recv
    \/ signal
    \/ server_return
    \/ save_finish
    \/ Tick

\* the applier and the readers are scheduled whenever they can run
StreamSpec ==
    /\ Init
    /\ [][StreamNext]_vars
    /\ WF_vars(StreamApplierNext)
    /\ \A t \in Threads : WF_vars(canvas_read(t)) /\ WF_vars(encode_step(t))
    /\ \A h \in Handlers : WF_vars(encode_ok(h)) /\ WF_vars(cache_store(h))

(***************************************************************************)
(* C15. Reader progress: under weak fairness of the applier and of the     *)
(* readers, a get_image request that missed the cache eventually takes the *)
(* read lock (or ends), also while set_pixel requests keep arriving.       *)
(* The applier keeps the write lock as long as try_recv finds an entry, so *)
(* a steady stream of writes shuts the reader out for ever: TLC refutes it.*)
(***************************************************************************)
C15_ReaderProgress ==
    \A h \in Handlers : (pc[h] = "miss") ~> (pc[h] /= "miss")


(***************************************************************************)
(* C16. Cache monotonicity under concurrent misses.                        *)
(***************************************************************************)
\* the numbers of applied writes after which the canvas had the content that
\* the bytes d encode
EncodedStates(d) ==
    {k \in 0 .. Len(applied) : d = Encode(ApplyAll(Seed, SubSeq(applied, 1, k)))}

\* some canvas state new encodes is not older than some state old encodes
AtLeastAsRecent(new, old) ==
    \E k2 \in EncodedStates(new), k1 \in EncodedStates(old) : k2 >= k1

\* C16 (as claimed): whenever a handler replaces the cache slot, the canvas
\* state in the new entry is at least as recent as the one in the entry it
\* replaces, and the entry's timestamp is at most TTL after the moment the
\* handler took its snapshot of the canvas.
C16_CacheMonotonic ==
    [][response' /= NoResponse =>
        \A h \in DOMAIN snap_at :
            (cache_store(h) /\ "cache" \notin poisoned) =>
                /\ canvas_cache /= None =>
                        AtLeastAsRecent(canvas_cache'.data, canvas_cache.data)
                /\ canvas_cache'.updated_at <= snap_at[h] + TTL]_vars

\* C16 (amended): the cache slot is replaced only by a handler's store; the
\* new entry holds the handler's complete encoding of a state the canvas has
\* been in, is stamped when it is created for the store, not earlier than
\* the handler's snapshot, and is what the handler answers with.  The last
\* store wins: the state may be older than the replaced entry's, and the
\* stamp later than TTL after the snapshot.
C16_LastStoreWins ==
    [][/\ canvas_cache' /= canvas_cache => \E h \in Handlers : cache_store(h)
       /\ response' /= NoResponse =>
            \A h \in DOMAIN snap_at :
                (cache_store(h) /\ "cache" \notin poisoned) =>
                    /\ canvas_cache'.data = buffer[h]
                    /\ EncodedStates(canvas_cache'.data) /= {}
                    /\ canvas_cache'.updated_at = now
                    /\ canvas_cache'.updated_at >= snap_at[h]
                    /\ response' = ResponseEncoded(canvas_cache'.data)]_vars

\* a handler has just stored an entry, and another one is about to replace
\* it with an older canvas state from a snapshot taken more than TTL ago
C16_Witness ==
    /\ canvas_cache /= None
    /\ response = ResponseEncoded(canvas_cache.data)
    /\ \E h \in DOMAIN snap_at :
            /\ pc[h] = "encoded"
            /\ ~AtLeastAsRecent(buffer[h], canvas_cache.data)
            /\ now - snap_at[h] > TTL

=============================================================================
